---- MODULE Spec2Model ----
(***************************************************************************)
(* Model of the mutual-information estimation engine of                    *)
(* src/monitor/mutual_info/mutual_info.py: the activation interceptor      *)
(* (register / start_listening / finish_listening / wrap_forward), the     *)
(* reference sampler (prepare), the evaluation drivers (update,            *)
(* decorate_evaluation), the result dispatch (save_information_async),     *)
(* the in-process path (save_information), the reporting step (plot), the  *)
(* bin-count search (adjust_bins) and the fixed-range digitize.            *)
(*                                                                         *)
(* A tensor is abstracted to the layer that computed it and its number of  *)
(* samples; a quantized array to its layer name, its number of samples,    *)
(* the bin count it was digitized with and whether its rows were           *)
(* collapsed to indices of unique rows; a mutual-information score to the  *)
(* pair of arrays it was computed from.                                    *)
(* Python dicts are kept as insertion-ordered sequences of (k, v) records. *)
(***************************************************************************)
EXTENDS Integers, Sequences, FiniteSets, TLC

\* ---------------------------------------------------------------- bounds
MaxBatch == 2          \* largest batch (samples per forward call)
MaxData == 3           \* largest evaluation data set (samples)
EstimateSize == 2      \* the estimate_size the session is constructed with
MaxCalls == 5          \* calls of the session's operations in one behaviour
MaxSamples == 4        \* rows handed to adjust_bins
MaxRows == 6           \* rows of a feature column handed to digitize
MaxValue == 1          \* activations of the column are 0..MaxValue
MaxBins == 3           \* digitize is called with 2..MaxBins bins

Layers == {"L1", "L2"}                 \* the model's sub-modules
LayerOrder == <<"L1", "L2">>           \* the order model(x) calls them in
Names == {"fc1", "fc2"}                \* names a layer may be registered under

VARIABLES
    estimate_size,   \* self.estimate_size
    layers,          \* self.layers: ordered dict name -> (layer, forward_orig)
    forward,         \* layer.forward, per sub-module
    is_active,       \* self.is_active
    eval_loader,     \* self.eval_loader: <<>> (None) or <<loader>>
    activations,     \* self.activations, hidden-layer part: name -> list of tensors
    references,      \* self.activations['input'], ['target']: <<>> or <<quantized>>
    quantized,       \* self.quantized: ordered dict name -> quantized
    information,     \* self.information: ordered dict name -> (info_x, info_y)
    n_bins,          \* self.n_bins: ordered dict name -> bin count (a defaultdict(int))
    variant,         \* the MutualInfoBin subclass the session is an instance of
    next_id,         \* identity of the next closure wrap_forward creates
    ret,             \* the last call: operation, outcome, returned value, effects
    n_calls,         \* calls made so far
    adj,             \* the adjust_bins call in progress
    dig              \* the MutualInfoBinFixed.digitize call on one feature column

sess == <<estimate_size, layers, forward, is_active, eval_loader, activations,
          references, quantized, information, n_bins, variant, next_id, ret, n_calls>>
vars == <<estimate_size, layers, forward, is_active, eval_loader, activations,
          references, quantized, information, n_bins, variant, next_id, ret, n_calls,
          adj, dig>>

\* ------------------------------------------------------------ ordered dict
Keys(d) == {d[i].k : i \in DOMAIN d}
Has(d, k) == k \in Keys(d)
Get(d, k) == d[CHOOSE i \in DOMAIN d : d[i].k = k].v
Put(d, k, v) ==
    IF Has(d, k)
    THEN [i \in DOMAIN d |-> IF d[i].k = k THEN [k |-> k, v |-> v] ELSE d[i]]
    ELSE Append(d, [k |-> k, v |-> v])

\* F applied to the value of v: v is computed once and bound, as an
\* assignment to a local variable does
Bind(v, F(_)) == CHOOSE y \in {F(x) : x \in {v}} : TRUE

Min(a, b) == IF a < b THEN a ELSE b
Max(a, b) == IF a > b THEN a ELSE b

RECURSIVE SumLen(_)
SumLen(ts) == IF ts = <<>> THEN 0 ELSE ts[1].len + SumLen(Tail(ts))

\* ------------------------------------------------------- forward functions
\* A forward function is a record: the sub-module's own forward (kind "orig")
\* or a closure made by wrap_forward (kind "wrap", its identity in id, the
\* forward it closes over in forward_orig[1]).
\* layer.forward as the class defines it (a bound method of the sub-module)
Orig(l) == [kind |-> "orig", id |-> 0, layer |-> l, layer_name |-> "",
            forward_orig |-> <<>>]
IsWrapper(f) == f.kind = "wrap"
\* the tensor the uninstrumented forward of l returns on a batch of x samples
OrigForward(l, x) == [layer |-> l, len |-> x]

\* the state of one MutualInfo object and of the sub-modules it patches
State == [estimate_size |-> estimate_size, layers |-> layers, forward |-> forward,
          is_active |-> is_active, eval_loader |-> eval_loader,
          activations |-> activations, references |-> references,
          quantized |-> quantized, information |-> information,
          n_bins |-> n_bins, variant |-> variant, next_id |-> next_id]

\* The record of a call: its operation and arguments (layer, x), whether the
\* session was active when it was made, how it ended, what it returned (out),
\* how often it invoked an uninstrumented forward, the layer names it
\* dispatched for computation, the viz.line calls it made, whether the
\* Schedule gate permitted it and the layer names adjust_bins ran for.
NoRet == [op |-> "init", layer |-> "", x |-> 0, was_active |-> FALSE,
          outcome |-> "ok", out |-> <<>>, orig_calls |-> 0,
          dispatched |-> <<>>, line |-> <<>>, permit |-> TRUE, adjusted |-> <<>>]

\* save_activations appending only what fits under the cap
save_activations_strict(acts, est, layer_name, tensor) ==
    LET buf == IF Has(acts, layer_name) THEN Get(acts, layer_name) ELSE <<>>
    IN IF SumLen(buf) + tensor.len <= est
       THEN Put(acts, layer_name, Append(buf, tensor))
       ELSE Put(acts, layer_name, buf)

\* save_activations testing <= where the code tests <
save_activations_le(acts, est, layer_name, tensor) ==
    LET buf == IF Has(acts, layer_name) THEN Get(acts, layer_name) ELSE <<>>
    IN IF SumLen(buf) <= est
       THEN Put(acts, layer_name, Append(buf, tensor))
       ELSE Put(acts, layer_name, buf)

\* save_activations: append unless the buffer already holds estimate_size
\* samples; reading self.activations[layer_name] creates the (defaultdict) key
save_activations(acts, est, layer_name, tensor) ==
    LET buf == IF Has(acts, layer_name) THEN Get(acts, layer_name) ELSE <<>>
    IN IF SumLen(buf) < est
       THEN Put(acts, layer_name, Append(buf, tensor))
       ELSE Put(acts, layer_name, buf)

\* A call f(x) of a forward function: [raised, out, acts, calls], calls counting
\* the invocations of an uninstrumented forward.
RECURSIVE CallFwd(_, _, _, _, _)

\* forward_and_save without its assertion
forward_and_save_unchecked(f, x, acts, est, active) ==
    LET r == CallFwd(f.forward_orig[1], x, acts, est, active)
    IN IF r.raised THEN r
       ELSE [r EXCEPT !.acts = save_activations(r.acts, est, f.layer_name, r.out[1])]

\* the closure wrap_forward returns
forward_and_save(f, x, acts, est, active) ==
    IF ~active
    THEN [raised |-> TRUE, out |-> <<>>, acts |-> acts, calls |-> 0]
    ELSE LET r == CallFwd(f.forward_orig[1], x, acts, est, active)
         IN IF r.raised THEN r
            ELSE [r EXCEPT !.acts = save_activations(r.acts, est, f.layer_name, r.out[1])]

CallFwd(f, x, acts, est, active) ==
    IF IsWrapper(f)
    THEN forward_and_save(f, x, acts, est, active)
    ELSE [raised |-> FALSE, out |-> <<OrigForward(f.layer, x)>>, acts |-> acts,
          calls |-> 1]

wrap_forward(id, layer_name, forward_orig) ==
    [kind |-> "wrap", id |-> id, layer |-> "", layer_name |-> layer_name,
     forward_orig |-> <<forward_orig>>]
\* the wrapped forward's captured original
Wrapped(f) == f.forward_orig[1]

\* ------------------------------------------------------------- quantizer
\* MutualInfo.process and its overrides: concatenate, truncate to the cap,
\* one symbol per sample
process(est, layer_name, tensors) ==
    [name |-> layer_name, size |-> Min(SumLen(tensors), est)]

\* the subclasses of MutualInfoBin a session is constructed from: the
\* fixed-range histogram quantizer and the k-means quantizer
Variants == {"fixed", "kmeans"}

\* MutualInfoBin.quantize and MutualInfoKMeans.quantize: the array stored for
\* a layer, with the bin count handed to digitize and whether the digitized
\* rows went through np.unique(..., return_inverse=True)
quantize_collapsing(v, layer_name, size, nb) ==
    [name |-> layer_name, size |-> size, n_bins |-> nb, collapsed |-> TRUE]

quantize(v, layer_name, size, nb) ==
    [name |-> layer_name, size |-> size, n_bins |-> nb, collapsed |-> v # "kmeans"]

\* number of samples of a stored array (<<>> is Python's empty list)
SizeOf(v) == IF v = <<>> THEN 0 ELSE v[1].size

\* sklearn's mutual_info_score rejects label arrays of different sizes
MIRaises(x, y) == SizeOf(x) # SizeOf(y)
compute_mutual_info(x, y) == [x |-> x, y |-> y]

\* ------------------------------------------------------- bin-count search
n_bins_default == 20
max_trials_adjust == 10
\* compression_range (min, max) in thousandths: the default (0.50, 0.999) and
\* a narrower window that rows of MaxSamples samples can exceed
CompressionRanges == {<<500, 999>>, <<250, 500>>}

\* An adjust_bins call: pc ("idle", "loop" between trials, "done" on return),
\* n = len(activations), the window, the current n_bins, the n_bins last
\* passed to digitize and the number of digitize trials made.
\* ------------------------------------------------- fixed-range digitize
\* MutualInfoBinFixed.digitize on one feature column of integer activations,
\* in exact arithmetic (floating-point rounding is not modelled).
\* no digitize call on a column in progress
NoDigitize == [pc |-> "idle", column |-> <<>>, n_bins |-> 0, levels |-> <<>>]

RECURSIVE SumSeq(_)
SumSeq(xs) == IF xs = <<>> THEN 0 ELSE Head(xs) + SumSeq(Tail(xs))

\* n * (a - mean), and n^2 * (n - 1) * std^2 (std is the unbiased estimate)
Deviation(column, a) == Len(column) * a - SumSeq(column)
SumSquares(column) ==
    SumSeq([i \in DOMAIN column |-> Deviation(column, column[i]) * Deviation(column, column[i])])

\* nb * (a - dim0_min) / (dim0_max - dim0_min) >= k, with dim0_min and
\* dim0_max = mean -+ 2 * std: nb * (a - mean) >= (4 * k - 2 * nb) * std,
\* compared by signs and squares
ScaledAtLeast(column, nb, a, k) ==
    LET A == nb * Deviation(column, a)
        C == 4 * k - 2 * nb
        lhs == A * A * (Len(column) - 1)
        rhs == C * C * SumSquares(column)
    IN IF A >= 0 /\ C <= 0 THEN TRUE
       ELSE IF A < 0 /\ C >= 0 THEN FALSE
       ELSE IF A >= 0 THEN lhs >= rhs
       ELSE lhs <= rhs

\* what .type(torch.LongTensor) makes of NaN (0 / 0 when std is 0 or the
\* column has one row): undefined in C; -1 stands for the most negative long
NaNCasts == {-1, 0}

\* digitize: scale, clamp_(min=0, max=nb), truncate to an integer
digitize(column, nb, nan) ==
    IF SumSquares(column) = 0 THEN [i \in DOMAIN column |-> nan]
    ELSE [i \in DOMAIN column |->
             Cardinality({k \in 1..nb : ScaledAtLeast(column, nb, column[i], k)})]

NoAdjust == [pc |-> "idle", n |-> 0, range |-> <<0, 0>>, n_bins |-> 0,
             digitized |-> 0, trials |-> 0]

adjust_bins_enter(n, range) ==
    [pc |-> "loop", n |-> n, range |-> range, n_bins |-> n_bins_default,
     digitized |-> 0, trials |-> 0]

\* the loop running one trial more than max_trials_adjust
adjust_bins_trial_extra(a, unique) ==
    LET too_high == (a.n - unique) * 1000 > a.range[2] * a.n
        too_low == (a.n - unique) * 1000 < a.range[1] * a.n
        nb == IF too_high THEN a.n_bins * 2
              ELSE IF too_low THEN Max(2, a.n_bins \div 2)
              ELSE a.n_bins
        break == IF too_high THEN FALSE ELSE IF too_low THEN nb = 2 ELSE TRUE
    IN [a EXCEPT !.digitized = a.n_bins, !.trials = a.trials + 1, !.n_bins = nb,
                 !.pc = IF break \/ a.trials + 1 > max_trials_adjust
                        THEN "done" ELSE "loop"]

\* one trial of adjust_bins' loop, digitize leaving `unique` distinct rows
adjust_bins_trial(a, unique) ==
    LET too_high == (a.n - unique) * 1000 > a.range[2] * a.n
        too_low == (a.n - unique) * 1000 < a.range[1] * a.n
        nb == IF too_high THEN a.n_bins * 2
              ELSE IF too_low THEN Max(2, a.n_bins \div 2)
              ELSE a.n_bins
        break == IF too_high THEN FALSE ELSE IF too_low THEN nb = 2 ELSE TRUE
    IN [a EXCEPT !.digitized = a.n_bins, !.trials = a.trials + 1, !.n_bins = nb,
                 !.pc = IF break \/ a.trials + 1 >= max_trials_adjust
                        THEN "done" ELSE "loop"]

\* the constructor's default compression_range, in thousandths
compression_range == <<500, 999>>

\* adjust_bins as one call: every digitize trial leaves `unique` distinct rows
\* (never more than there are rows)
RECURSIVE AdjustLoop(_, _)
AdjustLoop(a, unique) ==
    IF a.pc = "done" THEN a.n_bins
    ELSE AdjustLoop(adjust_bins_trial(a, Min(unique, a.n)), unique)

adjust_bins(n, range, unique) == AdjustLoop(adjust_bins_enter(n, range), unique)

\* MutualInfoBin.process choosing a bin count on every call
process_bin_always(s, layer_name, tensors, unique) ==
    LET base == process(s.estimate_size, layer_name, tensors)
    IN IF layer_name = "target"
       THEN [q |-> [name |-> layer_name, size |-> base.size, n_bins |-> 0,
                    collapsed |-> FALSE],
             n_bins |-> s.n_bins, adjusted |-> FALSE]
       ELSE LET nb == Put(s.n_bins, layer_name,
                          adjust_bins(base.size, compression_range, unique))
            IN [q |-> quantize(s.variant, layer_name, base.size, Get(nb, layer_name)),
                n_bins |-> nb, adjusted |-> TRUE]

\* MutualInfoBin.process (inherited by MutualInfoKMeans): [q, n_bins, adjusted],
\* the quantized array, self.n_bins afterwards and whether adjust_bins ran
process_bin(s, layer_name, tensors, unique) ==
    LET base == process(s.estimate_size, layer_name, tensors)
    IN IF layer_name = "target"
       THEN [q |-> [name |-> layer_name, size |-> base.size, n_bins |-> 0,
                    collapsed |-> FALSE],
             n_bins |-> s.n_bins, adjusted |-> FALSE]
       ELSE LET nb == IF Has(s.n_bins, layer_name) THEN s.n_bins
                      ELSE Put(s.n_bins, layer_name,
                               adjust_bins(base.size, compression_range, unique))
            IN [q |-> quantize(s.variant, layer_name, base.size, Get(nb, layer_name)),
                n_bins |-> nb, adjusted |-> ~Has(s.n_bins, layer_name)]

\* ------------------------------------------------------------ interceptor
register(s, layer, name) ==
    [s EXCEPT !.layers = Put(@, name, [layer |-> layer,
                                       forward_orig |-> s.forward[layer]])]

RECURSIVE StartLoop(_, _, _, _)
StartLoop(ls, i, fwd, id) ==
    IF i > Len(ls) THEN [forward |-> fwd, next_id |-> id]
    ELSE LET name == ls[i].k
             e == ls[i].v
         IN IF fwd[e.layer] = e.forward_orig
            THEN StartLoop(ls, i + 1,
                           [fwd EXCEPT ![e.layer] = wrap_forward(id, name, e.forward_orig)],
                           id + 1)
            ELSE StartLoop(ls, i + 1, fwd, id)

\* the body of start_listening, run when the Schedule decorator lets it
start_listening_body(s) ==
    LET r == StartLoop(s.layers, 1, s.forward, s.next_id)
    IN [s EXCEPT !.forward = r.forward, !.next_id = r.next_id, !.is_active = TRUE]

\* the Schedule decorator: the decorated body runs only when the gate permits
Schedule(permit, s, after) == IF permit THEN after ELSE s

start_listening(s, permit) == Schedule(permit, s, start_listening_body(s))

RECURSIVE RestoreLoop(_, _, _)
RestoreLoop(ls, i, fwd) ==
    IF i > Len(ls) THEN fwd
    ELSE RestoreLoop(ls, i + 1, [fwd EXCEPT ![ls[i].v.layer] = ls[i].v.forward_orig])

\* the keys of self.activations, in insertion order up to the references
ActivationKeys(s) ==
    (IF s.references.input # <<>> THEN <<"input">> ELSE <<>>)
    \o (IF s.references.target # <<>> THEN <<"target">> ELSE <<>>)
    \o [i \in DOMAIN s.activations |-> s.activations[i].k]

\* hidden_layer_names returning every key
hidden_layer_names_all(s) == ActivationKeys(s)

hidden_layer_names(s) ==
    SelectSeq(ActivationKeys(s), LAMBDA name : name \notin {"input", "target"})

\* self.activations[name], as a list of tensors
Buffer(s, name) ==
    IF name \in {"input", "target"}
    THEN [i \in DOMAIN s.references[name] |->
              [layer |-> name, len |-> s.references[name][i].size]]
    ELSE Get(s.activations, name)

\* self.activations.pop(name) for each of the names
PopAll(s, names) ==
    LET gone == {names[i] : i \in DOMAIN names}
    IN [s EXCEPT !.activations = SelectSeq(@, LAMBDA e : e.k \notin gone),
                 !.references = [r \in {"input", "target"} |->
                                    IF r \in gone THEN <<>> ELSE @[r]]]

\* _compute_async, run in a worker on a copy of self:
\* [raised, quantized, info, n_bins, adjusted]
compute_async(s, name, tensors, unique) ==
    LET p == process_bin(s, name, tensors, unique)
        q == <<p.q>>
    IN [raised |-> MIRaises(s.references.input, q) \/ MIRaises(s.references.target, q),
        quantized |-> q,
        info |-> [info_x |-> compute_mutual_info(s.references.input, q),
                  info_y |-> compute_mutual_info(s.references.target, q)],
        n_bins |-> IF Has(p.n_bins, name) THEN Get(p.n_bins, name) ELSE 0,
        adjusted |-> p.adjusted]

\* the merge loop that forgets the bin count a worker returns
RECURSIVE MergeLoop_no_bins(_, _, _, _, _)
MergeLoop_no_bins(s, args, i, acc, unique) ==
    IF i > Len(args) THEN [acc EXCEPT !.outcome = "ok"]
    ELSE LET r == compute_async(s, args[i].k, args[i].v, unique)
             ran == IF r.adjusted THEN Append(acc.adjusted, args[i].k) ELSE acc.adjusted
         IN IF r.raised
            THEN [acc EXCEPT !.outcome = "ValueError", !.adjusted = ran]
            ELSE MergeLoop_no_bins(s, args, i + 1,
                           [acc EXCEPT !.quantized = Put(@, args[i].k, r.quantized),
                                       !.information = Put(@, args[i].k, r.info),
                                       !.adjusted = ran],
                           unique)

\* the merge loop over executor.map's results: they arrive in submission
\* order whatever order the jobs complete in, and the first failed job's
\* exception ends the loop; acc is [outcome, quantized, information, n_bins,
\* adjusted]
RECURSIVE MergeLoop(_, _, _, _, _)
MergeLoop(s, args, i, acc, unique) ==
    IF i > Len(args) THEN [acc EXCEPT !.outcome = "ok"]
    ELSE LET r == compute_async(s, args[i].k, args[i].v, unique)
             ran == IF r.adjusted THEN Append(acc.adjusted, args[i].k) ELSE acc.adjusted
         IN IF r.raised
            THEN [acc EXCEPT !.outcome = "ValueError", !.adjusted = ran]
            ELSE MergeLoop(s, args, i + 1,
                           [acc EXCEPT !.quantized = Put(@, args[i].k, r.quantized),
                                       !.information = Put(@, args[i].k, r.info),
                                       !.n_bins = Put(@, args[i].k, r.n_bins),
                                       !.adjusted = ran],
                           unique)

\* save_information_async that leaves the buffers in self.activations
save_information_async_keep(s, unique) ==
    LET names == hidden_layer_names(s)
        args == [i \in DOMAIN names |-> [k |-> names[i], v |-> Buffer(s, names[i])]]
        m == MergeLoop(s, args, 1,
                       [outcome |-> "ok",
                        quantized |-> <<[k |-> "input", v |-> s.references.input]>>,
                        information |-> s.information, n_bins |-> s.n_bins,
                        adjusted |-> <<>>],
                       unique)
    IN [s |-> [s EXCEPT !.quantized = m.quantized, !.information = m.information,
                        !.n_bins = m.n_bins],
        outcome |-> m.outcome, dispatched |-> names, adjusted |-> m.adjusted]

\* save_information_async: [s, outcome, dispatched, adjusted]; every job works
\* on the session as it is once all buffers are popped
save_information_async(s, unique) ==
    LET names == hidden_layer_names(s)
        args == [i \in DOMAIN names |-> [k |-> names[i], v |-> Buffer(s, names[i])]]
        s1 == PopAll(s, names)
        m == MergeLoop(s1, args, 1,
                       [outcome |-> "ok",
                        quantized |-> <<[k |-> "input", v |-> s.references.input]>>,
                        information |-> s.information, n_bins |-> s.n_bins,
                        adjusted |-> <<>>],
                       unique)
    IN [s |-> [s1 EXCEPT !.quantized = m.quantized, !.information = m.information,
                         !.n_bins = m.n_bins],
        outcome |-> m.outcome, dispatched |-> names, adjusted |-> m.adjusted]

\* save_information's loop: each layer is popped, processed (which sets its
\* bin count in place) and stored in the cache before its scores are
\* computed; an exception ends the loop there. [s, outcome, adjusted]
RECURSIVE SaveLoop(_, _, _, _, _)
SaveLoop(s, names, i, ran, unique) ==
    IF i > Len(names) THEN [s |-> s, outcome |-> "ok", adjusted |-> ran]
    ELSE LET name == names[i]
             s1 == PopAll(s, <<name>>)
             p == process_bin(s1, name, Buffer(s, name), unique)
             q == <<p.q>>
             s2 == [s1 EXCEPT !.quantized = Put(@, name, q), !.n_bins = p.n_bins]
             now == IF p.adjusted THEN Append(ran, name) ELSE ran
         IN IF MIRaises(s2.references.input, q) \/ MIRaises(s2.references.target, q)
            THEN [s |-> s2, outcome |-> "ValueError", adjusted |-> now]
            ELSE SaveLoop([s2 EXCEPT !.information =
                               Put(@, name,
                                   [info_x |-> compute_mutual_info(s2.references.input, q),
                                    info_y |-> compute_mutual_info(s2.references.target, q)])],
                          names, i + 1, now, unique)

\* save_information, the in-process path: [s, outcome, dispatched, adjusted]
save_information(s, unique) ==
    LET names == hidden_layer_names(s)
        r == SaveLoop([s EXCEPT !.quantized = <<[k |-> "input", v |-> s.references.input]>>],
                      names, 1, <<>>, unique)
    IN [s |-> r.s, outcome |-> r.outcome, dispatched |-> names, adjusted |-> r.adjusted]

\* finish_listening without its is_active test
finish_listening_unguarded(s, unique) ==
    Bind([s EXCEPT !.forward = RestoreLoop(s.layers, 1, s.forward), !.is_active = FALSE],
         LAMBDA s1 : save_information_async(s1, unique))

\* finish_listening: [s, outcome, dispatched, adjusted]
finish_listening(s, unique) ==
    IF ~s.is_active
    THEN [s |-> s, outcome |-> "ok", dispatched |-> <<>>, adjusted |-> <<>>]
    ELSE Bind([s EXCEPT !.forward = RestoreLoop(s.layers, 1, s.forward),
                        !.is_active = FALSE],
              LAMBDA s1 : save_information_async(s1, unique))

\* ----------------------------------------------------- evaluation drivers
\* the batch sizes a DataLoader over n samples yields (drop_last = False)
Batches(loader) ==
    LET full == loader.n \div loader.batch_size
        rest == loader.n % loader.batch_size
    IN [i \in 1..(full + (IF rest = 0 THEN 0 ELSE 1)) |->
            IF i <= full THEN loader.batch_size ELSE rest]

\* the evaluation loaders: n samples in batches of MaxBatch, the last one smaller
Loaders == [n : 1..MaxData, batch_size : {MaxBatch}]

\* model(images): the sub-modules called in order; [raised, acts, calls]
RECURSIVE ModelForward(_, _, _, _)
ModelForward(s, x, i, acc) ==
    IF i > Len(LayerOrder) \/ acc.raised THEN acc
    ELSE LET r == CallFwd(s.forward[LayerOrder[i]], x, acc.acts, s.estimate_size,
                          s.is_active)
         IN ModelForward(s, x, i + 1,
                         [raised |-> r.raised, acts |-> r.acts,
                          calls |-> acc.calls + r.calls])

RunModel(s, x) ==
    ModelForward(s, x, 1, [raised |-> FALSE, acts |-> s.activations, calls |-> 0])

\* prepare's loop: the batches kept as references
RECURSIVE PrepareLoop(_, _, _, _)
PrepareLoop(s, loader, i, inputs) ==
    IF i > Len(Batches(loader)) THEN inputs
    ELSE LET got == Append(inputs, [layer |-> "data", len |-> Batches(loader)[i]])
         IN IF Len(got) * loader.batch_size >= s.estimate_size THEN got
            ELSE PrepareLoop(s, loader, i + 1, got)

\* prepare: the references are processed like any layer, 'input' first
prepare(s, loader, unique) ==
    LET inputs == PrepareLoop(s, loader, 1, <<>>)
        x == process_bin(s, "input", inputs, unique)
        y == process_bin([s EXCEPT !.n_bins = x.n_bins], "target", inputs, unique)
    IN [s |-> [s EXCEPT !.eval_loader = <<loader>>,
                        !.references = [input |-> <<x.q>>, target |-> <<y.q>>],
                        !.n_bins = y.n_bins],
        adjusted |-> IF x.adjusted THEN <<"input">> ELSE <<>>]

\* update's loop over the evaluation loader; batch_id counts from 0
RECURSIVE UpdateLoop(_, _, _, _)
UpdateLoop(s, loader, i, acc) ==
    IF i > Len(Batches(loader)) THEN acc
    ELSE LET r == RunModel([s EXCEPT !.activations = acc.acts], Batches(loader)[i])
             now == [raised |-> r.raised, acts |-> r.acts, calls |-> acc.calls + r.calls]
         IN IF r.raised \/ (i - 1) * loader.batch_size >= s.estimate_size THEN now
            ELSE UpdateLoop(s, loader, i + 1, now)

\* update that goes on when start_listening left the session inactive
update_unready(s, permit, unique) ==
    IF s.eval_loader = <<>>
    THEN [s |-> s, outcome |-> "ok", dispatched |-> <<>>, calls |-> 0,
          adjusted |-> <<>>]
    ELSE Bind(start_listening(s, permit), LAMBDA s1 :
         Bind(UpdateLoop(s1, s1.eval_loader[1], 1,
                         [raised |-> FALSE, acts |-> s1.activations, calls |-> 0]),
              LAMBDA r :
         Bind([s1 EXCEPT !.activations = r.acts], LAMBDA s2 :
             IF r.raised
             THEN [s |-> s2, outcome |-> "AssertionError", dispatched |-> <<>>,
                   calls |-> r.calls, adjusted |-> <<>>]
             ELSE Bind(finish_listening(s2, unique), LAMBDA f :
                      [s |-> f.s, outcome |-> f.outcome, dispatched |-> f.dispatched,
                       calls |-> r.calls, adjusted |-> f.adjusted]))))

\* update: [s, outcome, dispatched, calls, adjusted]
update(s, permit, unique) ==
    IF s.eval_loader = <<>>
    THEN [s |-> s, outcome |-> "ok", dispatched |-> <<>>, calls |-> 0,
          adjusted |-> <<>>]
    ELSE Bind(start_listening(s, permit), LAMBDA s1 :
         IF ~s1.is_active
         THEN [s |-> s1, outcome |-> "ok", dispatched |-> <<>>, calls |-> 0,
               adjusted |-> <<>>]
         ELSE Bind(UpdateLoop(s1, s1.eval_loader[1], 1,
                              [raised |-> FALSE, acts |-> s1.activations, calls |-> 0]),
                   LAMBDA r :
              Bind([s1 EXCEPT !.activations = r.acts], LAMBDA s2 :
                  IF r.raised
                  THEN [s |-> s2, outcome |-> "AssertionError", dispatched |-> <<>>,
                        calls |-> r.calls, adjusted |-> <<>>]
                  ELSE Bind(finish_listening(s2, unique), LAMBDA f :
                           [s |-> f.s, outcome |-> f.outcome,
                            dispatched |-> f.dispatched, calls |-> r.calls,
                            adjusted |-> f.adjusted]))))

\* the function decorate_evaluation returns, around an evaluation function
\* that runs the model on one batch of x samples
wrapped(s, permit, x, unique) ==
    Bind(start_listening(s, permit), LAMBDA s1 :
    Bind(RunModel(s1, x), LAMBDA r :
    Bind([s1 EXCEPT !.activations = r.acts], LAMBDA s2 :
        IF r.raised
        THEN [s |-> s2, outcome |-> "AssertionError", dispatched |-> <<>>,
              calls |-> r.calls, adjusted |-> <<>>]
        ELSE Bind(finish_listening(s2, unique), LAMBDA f :
                 [s |-> f.s, outcome |-> f.outcome, dispatched |-> f.dispatched,
                  calls |-> r.calls, adjusted |-> f.adjusted]))))

\* -------------------------------------------------------------- reporting
\* how a plot_quantized_dispersion call goes: the Schedule gate denies it, it
\* returns, or one of its visdom / numpy calls raises
DispersionOutcomes == {"denied", "ok", "raise"}

ZeroBins(s) == \E i \in DOMAIN s.n_bins : s.n_bins[i].v = 0

\* reading self.n_bins[name] (a defaultdict(int)) for each name
RECURSIVE TouchBins(_, _, _)
TouchBins(nb, names, i) ==
    IF i > Len(names) THEN nb
    ELSE TouchBins(IF Has(nb, names[i]) THEN nb ELSE Put(nb, names[i], 0), names, i + 1)

\* the body of plot_quantized_dispersion, as far as the session goes: it
\* returns at once when some bin count is 0, else reads the bin count of
\* every name of the quantized cache for the legend
plot_quantized_dispersion(s) ==
    IF ZeroBins(s) THEN s
    ELSE [s EXCEPT !.n_bins = TouchBins(@, [i \in DOMAIN s.quantized |-> s.quantized[i].k], 1)]

\* plot without its assertion
plot_unchecked(s, dispersion) ==
    IF s.information = <<>>
    THEN [s |-> s, outcome |-> "ok", line |-> <<>>]
    ELSE LET s1 == Schedule(dispersion # "denied", s, plot_quantized_dispersion(s))
         IN IF dispersion = "raise" /\ ~ZeroBins(s)
            THEN [s |-> s1, outcome |-> "Error", line |-> <<>>]
            ELSE [s |-> [s1 EXCEPT !.information = <<>>], outcome |-> "ok",
                  line |-> <<s.information>>]

\* plot whose loop does not delete what it reports
plot_keeps(s, dispersion) ==
    IF s.is_active
    THEN [s |-> s, outcome |-> "AssertionError", line |-> <<>>]
    ELSE IF s.information = <<>>
    THEN [s |-> s, outcome |-> "ok", line |-> <<>>]
    ELSE LET s1 == Schedule(dispersion # "denied", s, plot_quantized_dispersion(s))
         IN IF dispersion = "raise" /\ ~ZeroBins(s)
            THEN [s |-> s1, outcome |-> "Error", line |-> <<>>]
            ELSE [s |-> s1, outcome |-> "ok", line |-> <<s.information>>]

\* plot: [s, outcome, line], line the viz.line calls made (each the drained
\* (layer_name, (info_x, info_y)) items); viz.line itself is taken to return
plot(s, dispersion) ==
    IF s.is_active
    THEN [s |-> s, outcome |-> "AssertionError", line |-> <<>>]
    ELSE IF s.information = <<>>
    THEN [s |-> s, outcome |-> "ok", line |-> <<>>]
    ELSE LET s1 == Schedule(dispersion # "denied", s, plot_quantized_dispersion(s))
         IN IF dispersion = "raise" /\ ~ZeroBins(s)
            THEN [s |-> s1, outcome |-> "Error", line |-> <<>>]
            ELSE [s |-> [s1 EXCEPT !.information = <<>>], outcome |-> "ok",
                  line |-> <<s.information>>]

\* ---------------------------------------------------------------- actions
Install(s) ==
    /\ estimate_size' = s.estimate_size
    /\ layers' = s.layers
    /\ forward' = s.forward
    /\ is_active' = s.is_active
    /\ eval_loader' = s.eval_loader
    /\ activations' = s.activations
    /\ references' = s.references
    /\ quantized' = s.quantized
    /\ information' = s.information
    /\ n_bins' = s.n_bins
    /\ variant' = s.variant
    /\ next_id' = s.next_id
    /\ n_calls < MaxCalls
    /\ n_calls' = n_calls + 1

\* the distinct digitized rows a digitize call may leave: any number, or (for
\* real-valued activations) as many as there are rows
Uniques == 1..EstimateSize
Distinct == {EstimateSize}

\* the variables of the pure-function calls
calls == <<adj, dig>>

Called(op) == [NoRet EXCEPT !.op = op, !.was_active = is_active]

Init ==
    /\ estimate_size = EstimateSize
    /\ layers = <<>>
    /\ forward = [l \in Layers |-> Orig(l)]
    /\ is_active = FALSE
    /\ eval_loader = <<>>
    /\ activations = <<>>
    /\ references = [input |-> <<>>, target |-> <<>>]
    /\ quantized = <<>>
    /\ information = <<>>
    /\ n_bins = <<>>
    /\ variant = "fixed"
    /\ next_id = 1
    /\ ret = NoRet
    /\ n_calls = 0
    /\ adj = NoAdjust
    /\ dig = NoDigitize

Register ==
    \E l \in Layers, name \in Names :
        /\ Install(register(State, l, name))
        /\ ret' = [Called("register") EXCEPT !.layer = l]
        /\ UNCHANGED calls

\* prepare is called once, before any pass (a constraint on the caller)
PrepareOn(loaders, uniques) ==
    /\ eval_loader = <<>>
    /\ \E loader \in loaders, unique \in uniques :
        \E p \in {prepare(State, loader, unique)} :
           /\ Install(p.s)
           /\ ret' = [Called("prepare") EXCEPT !.adjusted = p.adjusted]
           /\ UNCHANGED calls

StartListening ==
    \E permit \in BOOLEAN :
        \E s \in {start_listening(State, permit)} :
           /\ Install(s)
           /\ ret' = [Called("start_listening") EXCEPT !.permit = permit]
           /\ UNCHANGED calls

\* layer(x), a call of one sub-module from anywhere in the program
Forward ==
    \E l \in Layers, x \in 1..MaxBatch :
        \E r \in {CallFwd(forward[l], x, activations, estimate_size, is_active)} :
           /\ Install([State EXCEPT !.activations = r.acts])
           /\ ret' = [Called("forward") EXCEPT
                        !.layer = l, !.x = x, !.out = r.out, !.orig_calls = r.calls,
                        !.outcome = IF r.raised THEN "AssertionError" ELSE "ok"]
           /\ UNCHANGED calls

Prepare == PrepareOn(Loaders, Distinct)

FinishListening ==
    \E unique \in Distinct :
        \E f \in {finish_listening(State, unique)} :
           /\ Install(f.s)
           /\ ret' = [Called("finish_listening") EXCEPT
                        !.outcome = f.outcome, !.dispatched = f.dispatched,
                        !.adjusted = f.adjusted]
           /\ UNCHANGED calls

UpdateOn(uniques) ==
    \E permit \in BOOLEAN, unique \in uniques :
        \E u \in {update(State, permit, unique)} :
           /\ Install(u.s)
           /\ ret' = [Called("update") EXCEPT
                        !.outcome = u.outcome, !.dispatched = u.dispatched,
                        !.orig_calls = u.calls, !.permit = permit,
                        !.adjusted = u.adjusted]
           /\ UNCHANGED calls

Update == UpdateOn(Distinct)

Evaluate ==
    \E permit \in BOOLEAN, x \in 1..MaxBatch, unique \in Distinct :
        \E w \in {wrapped(State, permit, x, unique)} :
           /\ Install(w.s)
           /\ ret' = [Called("wrapped") EXCEPT
                        !.x = x, !.outcome = w.outcome, !.dispatched = w.dispatched,
                        !.orig_calls = w.calls, !.permit = permit,
                        !.adjusted = w.adjusted]
           /\ UNCHANGED calls

Plot ==
    \E dispersion \in DispersionOutcomes :
        \E p \in {plot(State, dispersion)} :
           /\ Install(p.s)
           /\ ret' = [Called("plot") EXCEPT !.outcome = p.outcome, !.line = p.line]
           /\ UNCHANGED calls

Next ==
    \/ Register
    \/ Prepare
    \/ StartListening
    \/ Forward
    \/ FinishListening
    \/ Update
    \/ Evaluate
    \/ Plot

Spec == Init /\ [][Next]_vars

\* The training loop's use of a session (main.py's trainers): layers are
\* registered, prepare is called with the evaluation loader, then update and
\* plot alternate. The session is of either quantizer class, estimate_size is
\* any value up to the bound, the loader has any batch size, and a digitize
\* call may leave any number of distinct rows.
AllLoaders == [n : 1..MaxData, batch_size : 1..MaxBatch]

InitPass ==
    /\ estimate_size \in 1..EstimateSize
    /\ layers = <<>>
    /\ forward = [l \in Layers |-> Orig(l)]
    /\ is_active = FALSE
    /\ eval_loader = <<>>
    /\ activations = <<>>
    /\ references = [input |-> <<>>, target |-> <<>>]
    /\ quantized = <<>>
    /\ information = <<>>
    /\ n_bins = <<>>
    /\ variant \in Variants
    /\ next_id = 1
    /\ ret = NoRet
    /\ n_calls = 0
    /\ adj = NoAdjust
    /\ dig = NoDigitize

PrepareAny == PrepareOn(AllLoaders, Uniques)
UpdateAny == UpdateOn(Uniques)

NextPass ==
    \/ Register
    \/ PrepareAny
    \/ UpdateAny
    \/ Plot

SpecPass == InitPass /\ [][NextPass]_vars

\* every registered (name, layer, forward_orig)
Registered == {layers[i] : i \in DOMAIN layers}

\* ----------------------------------------------------------------- claims
\* C1. Reversibility: once finish_listening has returned, every registered
\* layer's forward is the original forward again, and a forward call made
\* with no session active returns the original output without raising.
C1_Reversible ==
    /\ ret.op = "finish_listening" =>
            \A e \in Registered : forward[e.v.layer] = Orig(e.v.layer)
    /\ (ret.op = "forward" /\ ~ret.was_active) =>
            (ret.outcome = "ok" /\ ret.out = <<OrigForward(ret.layer, ret.x)>>)

\* C2. is_active is true exactly while interception is attached: whenever
\* is_active is false no registered layer's forward is a wrapper.
C2_NoStaleWrapper ==
    ~is_active => \A e \in Registered : ~IsWrapper(forward[e.v.layer])

\* C3. At most one wrapper per layer: no layer's forward is a wrapper whose
\* wrapped original is itself a wrapper.
C3_SingleWrapper ==
    \A l \in Layers : IsWrapper(forward[l]) => ~IsWrapper(Wrapped(forward[l]))

\* C4. finish_listening called while the session is not active does not
\* raise, dispatches nothing and leaves the layers' forwards, is_active, the
\* buffers, the references, the quantized cache and the record unchanged.
C4_FinishInactiveNoOp ==
    [][(ret'.op = "finish_listening" /\ ~is_active) =>
            /\ ret'.outcome = "ok"
            /\ ret'.dispatched = <<>>
            /\ UNCHANGED <<layers, forward, is_active, activations, references,
                           quantized, information>>]_vars

C4_Witness ==
    /\ ret.op = "finish_listening"
    /\ ~ret.was_active
    /\ layers # <<>>
    /\ information # <<>>

\* C5. Before prepare (eval_loader unset) no call installs a wrapper, sets
\* is_active or raises.
C5_NoOpBeforePrepare ==
    eval_loader = <<>> =>
        /\ ~is_active
        /\ \A l \in Layers : ~IsWrapper(forward[l])
        /\ ret.outcome = "ok"

\* C6. A wrapper invoked while is_active is false raises the assertion
\* before the original forward runs and before anything is buffered; invoked
\* while is_active is true it returns the original forward's output.
C6_WrapperAsserts ==
    [][(ret'.op = "forward" /\ IsWrapper(forward[ret'.layer])) =>
            IF ~is_active
            THEN /\ ret'.outcome = "AssertionError"
                 /\ ret'.orig_calls = 0
                 /\ ret'.out = <<>>
                 /\ activations' = activations
            ELSE /\ ret'.outcome = "ok"
                 /\ ret'.out = <<OrigForward(ret'.layer, ret'.x)>>]_vars

C6_Witness ==
    /\ ret.op = "forward"
    /\ ~ret.was_active
    /\ IsWrapper(forward[ret.layer])
    /\ ret.outcome = "AssertionError"

\* C7. plot called while is_active is true raises the assertion, reports
\* nothing and leaves the record and the quantized cache unchanged.
C7_PlotActiveAsserts ==
    [][(ret'.op = "plot" /\ is_active) =>
            /\ ret'.outcome = "AssertionError"
            /\ ret'.line = <<>>
            /\ UNCHANGED <<information, quantized>>]_vars

C7_Witness ==
    /\ ret.op = "plot"
    /\ ret.was_active
    /\ ret.outcome = "AssertionError"
    /\ information # <<>>

\* C8. Whenever plot returns normally the record is empty and every pair
\* that was in the record has been passed to viz.line exactly once (in one
\* call); with an empty record nothing is passed.
C8_PlotDrains ==
    [][(ret'.op = "plot" /\ ret'.outcome = "ok") =>
            /\ information' = <<>>
            /\ ret'.line = IF information = <<>> THEN <<>> ELSE <<information>>]_vars

C8_Witness ==
    /\ ret.op = "plot"
    /\ ret.outcome = "ok"
    /\ ret.line # <<>>
    /\ Len(ret.line[1]) = 2
    /\ information = <<>>

\* C9 as stated: no buffer ever holds more than estimate_size samples.
C9_BufferWithinCap ==
    \A i \in DOMAIN activations : SumLen(activations[i].v) <= estimate_size

\* C9 as amended: the samples a buffer held before its last tensor was
\* appended are fewer than estimate_size, so a buffer holds fewer than
\* estimate_size plus the length of its last tensor.
C9_BufferBelowCapBeforeLast ==
    \A i \in DOMAIN activations :
        LET buf == activations[i].v
        IN /\ buf # <<>>
           /\ SumLen(SubSeq(buf, 1, Len(buf) - 1)) < estimate_size
           /\ SumLen(buf) < estimate_size + buf[Len(buf)].len

C9_Witness ==
    \E i \in DOMAIN activations : SumLen(activations[i].v) > estimate_size

\* ---------------------------------------- adjust_bins, trial by trial
AdjustCall ==
    \E n \in 1..MaxSamples, range \in CompressionRanges :
        /\ adj.pc \in {"idle", "done"}
        /\ adj' = adjust_bins_enter(n, range)
        /\ UNCHANGED <<sess, dig>>

AdjustTrial ==
    \E unique \in 1..adj.n :
        /\ adj.pc = "loop"
        /\ adj' = adjust_bins_trial(adj, unique)
        /\ UNCHANGED <<sess, dig>>

NextAdjust ==
    \/ AdjustCall
    \/ AdjustTrial

SpecAdjust == Init /\ [][NextAdjust]_vars

\* C10. adjust_bins makes at most max_trials_adjust digitize trials, has
\* returned once it has made that many, and never holds or returns a bin
\* count below 2.
C10_AdjustBounded ==
    adj.pc # "idle" =>
        /\ adj.trials <= max_trials_adjust
        /\ (adj.trials = max_trials_adjust => adj.pc = "done")
        /\ adj.n_bins >= 2

C10_Witness ==
    /\ adj.pc = "done"
    /\ adj.trials = max_trials_adjust
    /\ adj.digitized < n_bins_default
\* C11. When the trial budget runs out without a bin count inside the
\* compression window, the bin count adjust_bins returns is the one its
\* final trial passed to digitize.
C11_ReturnsTriedCount ==
    (adj.pc = "done" /\ adj.trials = max_trials_adjust) => adj.n_bins = adj.digitized

\* C12. A bin count chosen for a layer name is fixed for the session: no call
\* of the session (a later pass with its worker-side process and the merge
\* of the returned bin count, or plot) changes or removes the n_bins entry of
\* a name that has one, and adjust_bins does not run for that name again.
C12_BinCountFixed ==
    [][\A i \in DOMAIN n_bins :
            /\ Has(n_bins', n_bins[i].k)
            /\ Get(n_bins', n_bins[i].k) = n_bins[i].v
            /\ \A j \in DOMAIN ret'.adjusted : ret'.adjusted[j] # n_bins[i].k]_vars

\* a second pass over layers whose bin counts differ and were chosen before
C12_Witness ==
    /\ ret.op = "update"
    /\ ret.outcome = "ok"
    /\ Len(ret.dispatched) = 2
    /\ ret.adjusted = <<>>
    /\ \E i, j \in DOMAIN n_bins : n_bins[i].v # n_bins[j].v

\* C13. After prepare the references stored under 'input' and 'target' never
\* change: no later call of the session (start_listening, a forward call,
\* finish_listening with its dispatch, update, a wrapped evaluation, plot)
\* changes or removes them, and every mutual-information value such a call
\* stores is computed against exactly these two references.
C13_ReferencesFrozen ==
    [][eval_loader # <<>> =>
            /\ references' = references
            /\ \A i \in DOMAIN information' :
                    \/ \E j \in DOMAIN information : information[j] = information'[i]
                    \/ /\ information'[i].v.info_x.x = references.input
                       /\ information'[i].v.info_y.x = references.target]_vars

\* a standalone finish_listening after prepare that stored new values
C13_Witness ==
    /\ ret.op = "finish_listening"
    /\ ret.outcome = "ok"
    /\ ret.dispatched # <<>>
    /\ references.input # <<>>
    /\ information # <<>>

\* C14 as stated. When the Schedule gate denies, start_listening replaces no
\* forward and leaves is_active as it is, an update() so denied runs no
\* forward pass, dispatches nothing and leaves the information record
\* unchanged, and so does a finish_listening() that follows a denied
\* start_listening().
C14_DeniedNoPass ==
    [][/\ (ret'.op = "start_listening" /\ ~ret'.permit) =>
              UNCHANGED <<forward, is_active>>
       /\ (ret'.op = "update" /\ ~ret'.permit) =>
              /\ ret'.orig_calls = 0
              /\ ret'.dispatched = <<>>
              /\ information' = information
       /\ (ret.op = "start_listening" /\ ~ret.permit /\ ret'.op = "finish_listening") =>
              /\ ret'.dispatched = <<>>
              /\ information' = information]_vars

\* C14, amended. When the Schedule gate denies, start_listening replaces no
\* forward and leaves is_active as it is; if no session was active, is_active
\* stays false, a denied update() runs no forward pass, dispatches nothing
\* and changes nothing, and a finish_listening() right after the denied
\* start_listening() dispatches nothing and leaves the record unchanged.
C14_DeniedInactiveNoPass ==
    [][/\ (ret'.op = "start_listening" /\ ~ret'.permit) =>
              UNCHANGED <<forward, is_active>>
       /\ (ret'.op \in {"start_listening", "update"} /\ ~ret'.permit /\ ~is_active) =>
              /\ ~is_active'
              /\ ret'.orig_calls = 0
              /\ ret'.dispatched = <<>>
              /\ ret'.outcome = "ok"
              /\ UNCHANGED <<layers, forward, activations, references, quantized,
                             information, n_bins>>
       /\ (ret.op = "start_listening" /\ ~ret.permit /\ ~ret.was_active
           /\ ret'.op = "finish_listening") =>
              /\ ret'.dispatched = <<>>
              /\ information' = information]_vars

\* a denied update() on a prepared, inactive session with registered layers
C14_Witness ==
    /\ ret.op = "update"
    /\ ~ret.permit
    /\ ~ret.was_active
    /\ eval_loader # <<>>
    /\ layers # <<>>

\* C15. A finish_listening() that completes a pass has dispatched every
\* hidden layer with buffered activations exactly once: on its return the
\* buffers are gone (the references stay), and the information record and
\* the quantized cache each hold an entry under every dispatched name; the
\* same holds for the finish_listening() inside update() and inside a
\* wrapped evaluation.
C15_AllDispatched ==
    [][/\ (ret'.op = "finish_listening" /\ is_active /\ ret'.outcome = "ok") =>
              /\ ret'.dispatched = [i \in DOMAIN activations |-> activations[i].k]
              /\ references' = references
       /\ (ret'.op \in {"finish_listening", "update", "wrapped"}
           /\ ret'.outcome = "ok" /\ ~is_active') =>
              /\ activations' = <<>>
              /\ \A i, j \in DOMAIN ret'.dispatched :
                      ret'.dispatched[i] = ret'.dispatched[j] => i = j
              /\ \A i \in DOMAIN ret'.dispatched :
                      /\ Has(information', ret'.dispatched[i])
                      /\ Has(quantized', ret'.dispatched[i])]_vars

\* a completed pass over two hidden layers
C15_Witness ==
    /\ ret.op = "update"
    /\ ret.outcome = "ok"
    /\ Len(ret.dispatched) = 2
    /\ activations = <<>>
    /\ \A name \in Names : Has(information, name) /\ Has(quantized, name)

\* C16 as stated. With the k-means quantizer, processing a hidden layer never
\* runs adjust_bins for it, and the labels digitize returns are stored
\* without the unique/inverse collapse.
C16_KMeansNoAdjust ==
    (variant = "kmeans" /\ ret.op = "update") =>
        /\ ret.adjusted = <<>>
        /\ \A i \in DOMAIN quantized : quantized[i].k \in Names =>
                ~quantized[i].v[1].collapsed

\* C16, amended. With the k-means quantizer the labels digitize returns are
\* stored without the unique/inverse collapse, clustered into the number of
\* clusters n_bins holds for the layer; that number is chosen by adjust_bins
\* the first time the layer is processed, as for the histogram quantizers.
C16_KMeansDirectLabels ==
    variant = "kmeans" =>
        /\ \A i \in DOMAIN quantized : quantized[i].k \in Names =>
                /\ ~quantized[i].v[1].collapsed
                /\ Has(n_bins, quantized[i].k)
                /\ quantized[i].v[1].n_bins = Get(n_bins, quantized[i].k)
        /\ \A j \in DOMAIN ret.adjusted : Has(n_bins, ret.adjusted[j])

\* a k-means pass that ran adjust_bins for the hidden layers it processed
C16_Witness ==
    /\ variant = "kmeans"
    /\ ret.op = "update"
    /\ ret.outcome = "ok"
    /\ Len(ret.adjusted) = 2
    /\ \A name \in Names : Has(quantized, name)

\* ---------------------------------------------- digitize, call by call
Columns == UNION {[1..n -> 0..MaxValue] : n \in 1..MaxRows}

DigitizeCall ==
    \E column \in Columns, nb \in 2..MaxBins :
        /\ dig.pc = "idle"
        /\ dig' = [pc |-> "called", column |-> column, n_bins |-> nb, levels |-> <<>>]
        /\ UNCHANGED <<sess, adj>>

DigitizeReturn ==
    \E nan \in NaNCasts :
        /\ dig.pc = "called"
        /\ dig' = [dig EXCEPT !.pc = "done",
                              !.levels = digitize(dig.column, dig.n_bins, nan)]
        /\ UNCHANGED <<sess, adj>>

NextDigitize ==
    \/ DigitizeCall
    \/ DigitizeReturn

SpecDigitize == Init /\ [][NextDigitize]_vars

\* C18. Fixed-range digitization maps every value of a column with nonzero
\* spread, values at or above mean + 2 std included, to one of the n_bins
\* integer levels 0 .. n_bins - 1.
C18_DigitizeWithinBins ==
    (dig.pc = "done" /\ SumSquares(dig.column) # 0) =>
        \A i \in DOMAIN dig.levels : dig.levels[i] \in 0..(dig.n_bins - 1)

\* C19. Sample alignment: a pass run by update() over the loader given to
\* prepare quantizes every hidden layer from as many samples as the 'input'
\* and 'target' references hold, whatever the data set size, the batch size
\* (a smaller final batch included) and estimate_size; no mutual-information
\* job of such a pass fails on a size mismatch.
C19_SamplesAligned ==
    (ret.op = "update" /\ ret.dispatched # <<>>) =>
        /\ ret.outcome = "ok"
        /\ \A i \in DOMAIN ret.dispatched :
                /\ Has(quantized, ret.dispatched[i])
                /\ SizeOf(Get(quantized, ret.dispatched[i])) = SizeOf(references.input)
                /\ SizeOf(Get(quantized, ret.dispatched[i])) = SizeOf(references.target)

\* a pass over two layers whose loader ends in a smaller batch and holds more
\* samples than estimate_size
C19_Witness ==
    /\ ret.op = "update"
    /\ ret.outcome = "ok"
    /\ Len(ret.dispatched) = 2
    /\ eval_loader[1].n % eval_loader[1].batch_size # 0
    /\ eval_loader[1].n > estimate_size
    /\ estimate_size % eval_loader[1].batch_size # 0

\* ------------------------------------------- the two result-saving paths
\* A session with both layers registered and the references prepared, from
\* which sessions are opened, layers called and the results saved by either
\* path: finish_listening (the worker pool) or save_information (in process).
Prepared(est, v, loader, unique) ==
    LET s0 == [estimate_size |-> est, layers |-> <<>>,
               forward |-> [l \in Layers |-> Orig(l)], is_active |-> FALSE,
               eval_loader |-> <<>>, activations |-> <<>>,
               references |-> [input |-> <<>>, target |-> <<>>],
               quantized |-> <<>>, information |-> <<>>, n_bins |-> <<>>,
               variant |-> v, next_id |-> 1]
    IN prepare(register(register(s0, "L1", "fc1"), "L2", "fc2"), loader, unique).s

InitSave ==
    \E loader \in Loaders, unique \in Uniques :
        \E s \in {Prepared(EstimateSize, "fixed", loader, unique)} :
            /\ estimate_size = s.estimate_size
            /\ layers = s.layers
            /\ forward = s.forward
            /\ is_active = s.is_active
            /\ eval_loader = s.eval_loader
            /\ activations = s.activations
            /\ references = s.references
            /\ quantized = s.quantized
            /\ information = s.information
            /\ n_bins = s.n_bins
            /\ variant = s.variant
            /\ next_id = s.next_id
            /\ ret = NoRet
            /\ n_calls = 0
            /\ adj = NoAdjust
            /\ dig = NoDigitize

FinishListeningAny ==
    \E unique \in Uniques :
        \E f \in {finish_listening(State, unique)} :
           /\ Install(f.s)
           /\ ret' = [Called("finish_listening") EXCEPT
                        !.outcome = f.outcome, !.dispatched = f.dispatched,
                        !.adjusted = f.adjusted]
           /\ UNCHANGED calls

SaveInformation ==
    \E unique \in Uniques :
        \E f \in {save_information(State, unique)} :
           /\ Install(f.s)
           /\ ret' = [Called("save_information") EXCEPT
                        !.outcome = f.outcome, !.dispatched = f.dispatched,
                        !.adjusted = f.adjusted]
           /\ UNCHANGED calls

NextSave ==
    \/ StartListening
    \/ Forward
    \/ FinishListeningAny
    \/ SaveInformation

SpecSave == InitSave /\ [][NextSave]_vars

====
